---------------------------- MODULE Spec2Model ----------------------------
(***************************************************************************)
(* A model of minitar (src/proj1-code): the ustar header codec, the        *)
(* archive writer (create / append), the scanner (list), the extractor     *)
(* and the update branch of main.                                          *)
(*                                                                         *)
(* Files are sequences of bytes (0..255).  Values of the C types unsigned, *)
(* off_t, uid_t ... can exceed the integers TLC computes with, so the      *)
(* header codec handles them as octal digit strings, most significant      *)
(* digit first, without leading zeros (<<0>> is zero).                     *)
(***************************************************************************)
EXTENDS Integers, Sequences, FiniteSets, Bags, TLC

(***************************************************************************)
(* Program constants.                                                      *)
(***************************************************************************)
NUM_TRAILING_BLOCKS == 2
BLOCK_SIZE == 512
REGTYPE == 48
MAGIC == <<117, 115, 116, 97, 114>>

\* sizes of the fields of tar_header, in declaration order
SZ_name == 100
SZ_mode == 8
SZ_uid == 8
SZ_gid == 8
SZ_size == 12
SZ_mtime == 12
SZ_chksum == 8
SZ_typeflag == 1
SZ_linkname == 100
SZ_magic == 6
SZ_version == 2
SZ_uname == 32
SZ_gname == 32
SZ_devmajor == 8
SZ_devminor == 8
SZ_prefix == 155
SZ_padding == 12

\* offsets of the fields (offsetof), 0-based
OFF_name == 0
OFF_mode == OFF_name + SZ_name
OFF_uid == OFF_mode + SZ_mode
OFF_gid == OFF_uid + SZ_uid
OFF_size == OFF_gid + SZ_gid
OFF_mtime == OFF_size + SZ_size
OFF_chksum == OFF_mtime + SZ_mtime
OFF_typeflag == OFF_chksum + SZ_chksum
OFF_linkname == OFF_typeflag + SZ_typeflag
OFF_magic == OFF_linkname + SZ_linkname
OFF_version == OFF_magic + SZ_magic
OFF_uname == OFF_version + SZ_version
OFF_gname == OFF_uname + SZ_uname
OFF_devmajor == OFF_gname + SZ_gname
OFF_devminor == OFF_devmajor + SZ_devmajor
OFF_prefix == OFF_devminor + SZ_devminor
OFF_padding == OFF_prefix + SZ_prefix

\* width in bits of the C type unsigned, and of a char
UINT_BITS == 32
CHAR_BITS == 8

(***************************************************************************)
(* Bytes and C strings.                                                    *)
(***************************************************************************)
Min(a, b) == IF a < b THEN a ELSE b
Max(a, b) == IF a > b THEN a ELSE b

\* n copies of byte b
Rep(b, n) == [i \in 1..n |-> b]

\* memset / memcpy into a buffer: buf with bytes stored at 0-based offset off
Store(buf, off, bytes) ==
    SubSeq(buf, 1, off) \o bytes \o SubSeq(buf, off + Len(bytes) + 1, Len(buf))

\* the n bytes strncpy(dst, src, n) writes: src (a C string, given without
\* its terminator) cut to n bytes, or padded with NULs up to n bytes
strncpy(src, n) ==
    IF Len(src) >= n THEN SubSeq(src, 1, n) ELSE src \o Rep(0, n - Len(src))

\* the bytes snprintf(dst, n, ...) writes for the formatted text s:
\* at most n-1 characters of it and a terminating NUL
snprintf(n, s) == SubSeq(s, 1, Min(Len(s), n - 1)) \o <<0>>

\* the C string that starts at 0-based offset off of buf: the bytes up to
\* the first NUL (or the end of buf), whatever field they belong to
CStrLen(buf, off) ==
    IF \A i \in (off + 1)..Len(buf) : buf[i] # 0 THEN Max(Len(buf) - off, 0)
    ELSE CHOOSE k \in 0..(Len(buf) - off - 1) :
             /\ buf[off + k + 1] = 0
             /\ \A j \in 0..(k - 1) : buf[off + j + 1] # 0
CStr(buf, off) == SubSeq(buf, off + 1, off + CStrLen(buf, off))

(***************************************************************************)
(* Octal digit strings.                                                    *)
(***************************************************************************)
RECURSIVE Oct(_)
Oct(n) == IF n < 8 THEN <<n>> ELSE Oct(n \div 8) \o <<n % 8>>

RECURSIVE StripZeros(_)
StripZeros(d) == IF Len(d) > 1 /\ d[1] = 0 THEN StripZeros(Tail(d)) ELSE d

PadZeros(d, w) == IF Len(d) >= w THEN d ELSE Rep(0, w - Len(d)) \o d

RECURSIVE Pow2(_)
Pow2(k) == IF k = 0 THEN 1 ELSE 2 * Pow2(k - 1)

\* the low `bits` bits of a non-negative value: what a conversion to an
\* unsigned type of that width keeps
LowBits(d, bits) ==
    LET full == bits \div 3
        part == bits % 3
        p    == PadZeros(d, full + 1)
        k    == Len(p)
    IN  StripZeros(<<p[k - full] % Pow2(part)>> \o SubSeq(p, k - full + 1, k))

\* a (possibly negative) int converted to unsigned: v modulo 2^UINT_BITS
UnsignedOfInt(v) ==
    IF v >= 0 THEN LowBits(Oct(v), UINT_BITS)
    ELSE LET full == UINT_BITS \div 3
             top  == Pow2(UINT_BITS % 3) - 1
             m    == PadZeros(Oct(-v - 1), full + 1)
         IN  StripZeros([i \in 1..(full + 1) |->
                            (IF i = 1 THEN top ELSE 7) - m[i]])

\* the text printf's "%0<w>o" conversion produces
FmtOctal(d, w) == [i \in 1..Max(Len(d), w) |-> 48 + PadZeros(d, w)[i]]

(***************************************************************************)
(* compute_checksum                                                        *)
(***************************************************************************)
\* header_bytes is a pointer to char: a signed type on some builds and an
\* unsigned one on others (chsigned)
NonZero(b) == b # 0
IsNegativeChar(b) == b >= Pow2(CHAR_BITS - 1)

\* sum += header_bytes[i] over the whole block.  The NUL bytes add nothing, so
\* the sum is taken over the other bytes: as a bag in which byte i occurs
\* bytes[i] times, whose cardinality is the sum of the bytes.  Where char is
\* signed a byte b with its top bit set is added as b - 2^CHAR_BITS.
SumBytes(bytes, chsigned) ==
    LET nz == SelectSeq(bytes, NonZero)
    IN  BagCardinality(nz)
          - (IF chsigned
             THEN Pow2(CHAR_BITS) * Len(SelectSeq(nz, IsNegativeChar))
             ELSE 0)

compute_checksum(header, chsigned) ==
    LET blanked == Store(header, OFF_chksum, Rep(32, 8))
        sum     == UnsignedOfInt(SumBytes(blanked, chsigned))
    IN  Store(blanked, OFF_chksum, snprintf(8, FmtOctal(sum, 7)))

(***************************************************************************)
(* is_empty_block                                                          *)
(***************************************************************************)
is_empty_block(block) == \A i \in 1..BLOCK_SIZE : block[i] = 0

(***************************************************************************)
(* fill_tar_header                                                         *)
(***************************************************************************)
\* what getpwuid / getgrgid return for an id without an entry
NoEntry == <<-1>>
\* what stat() reports for a path that cannot be inspected
NoStat == [ok |-> FALSE]

\* st: the stat_buf of the file with the owner and group names already
\* looked up: [ok, mode, uid, gid, size, mtime, devmajor, devminor, pw_name,
\* gr_name].  Returns [ret, header].
fill_tar_header(file_name, st, chsigned) ==
    LET h0 == Rep(0, BLOCK_SIZE)
        bad == [ret |-> -1, header |-> h0]
    IN  IF ~st.ok THEN bad
        ELSE
        LET h1 == Store(h0, OFF_name, strncpy(file_name, 100))
            h2 == Store(h1, OFF_mode, snprintf(8, FmtOctal(LowBits(st.mode, 12), 7)))
            h3 == Store(h2, OFF_uid, snprintf(8, FmtOctal(st.uid, 7)))
        IN  IF st.pw_name = NoEntry THEN [ret |-> -1, header |-> h3]
            ELSE
            LET h4 == Store(h3, OFF_uname, strncpy(st.pw_name, 32))
                h5 == Store(h4, OFF_gid, snprintf(8, FmtOctal(st.gid, 7)))
            IN  IF st.gr_name = NoEntry THEN [ret |-> -1, header |-> h5]
                ELSE
                LET h6 == Store(h5, OFF_gname, strncpy(st.gr_name, 32))
                    h7 == Store(h6, OFF_size,
                                snprintf(12, FmtOctal(LowBits(st.size, UINT_BITS), 11)))
                    h8 == Store(h7, OFF_mtime,
                                snprintf(12, FmtOctal(LowBits(st.mtime, UINT_BITS), 11)))
                    h9 == Store(h8, OFF_typeflag, <<REGTYPE>>)
                    h10 == Store(h9, OFF_magic, strncpy(MAGIC, 6))
                    h11 == Store(h10, OFF_version, <<48, 48>>)
                    h12 == Store(h11, OFF_devmajor, snprintf(8, FmtOctal(st.devmajor, 7)))
                    h13 == Store(h12, OFF_devminor, snprintf(8, FmtOctal(st.devminor, 7)))
                IN  [ret |-> 0, header |-> compute_checksum(h13, chsigned)]

(***************************************************************************)
(* The file system.  A file is the sequence of its bytes; NoFile stands    *)
(* for a path that does not exist.  A directory maps names to files.       *)
(***************************************************************************)
NoFile == <<-1>>
\* a member that can be opened and stat'ed but not read: every fread on it
\* fails (a directory, a file on a failing disk)
Unreadable == <<-2>>

\* stat() of a member file: what the file system reports for it.  Member
\* files differ in their content only; all have the same owner and mode.
stat(file) ==
    IF file = NoFile THEN NoStat
    ELSE [ok |-> TRUE, mode |-> <<1, 0, 0, 6, 4, 4>>, uid |-> <<1, 7, 5, 0>>,
          gid |-> <<1, 7, 5, 0>>,
          size |-> Oct(IF file = Unreadable THEN BLOCK_SIZE ELSE Len(file)),
          mtime |-> <<1, 4, 5, 0, 0, 0, 0, 0, 0, 0, 0>>,
          devmajor |-> <<1, 0>>, devminor |-> <<1>>,
          pw_name |-> <<117>>, gr_name |-> <<103>>]

\* C's integer division, which truncates toward zero
CDiv(a, b) == IF a >= 0 THEN a \div b ELSE -((-a) \div b)

(***************************************************************************)
(* file_list.h / file_list.c are not part of the sources at hand; the list *)
(* is the ordered container of names the specification describes.          *)
(***************************************************************************)
MAX_NAME_LEN == 255
file_list_add(files, name) == Append(files, name)
file_list_contains(files, name) == \E i \in 1..Len(files) : files[i] = name

\* a truncation that refuses an archive without two blocks of zeros at its end
remove_if_marker(ar, nbytes) ==
    IF ar = NoFile THEN [ret |-> -1, ar |-> ar]
    ELSE IF Len(ar) < nbytes \/ \E k \in (Len(ar) - nbytes + 1)..Len(ar) : ar[k] # 0
    THEN [ret |-> -1, ar |-> ar]
    ELSE [ret |-> 0, ar |-> SubSeq(ar, 1, Len(ar) - nbytes)]

(***************************************************************************)
(* remove_trailing_bytes                                                   *)
(***************************************************************************)
\* Returns [ret, ar]: the archive file after truncate().
remove_trailing_bytes(ar, nbytes) ==
    IF ar = NoFile THEN [ret |-> -1, ar |-> ar]
    ELSE LET file_size == IF nbytes > Len(ar) THEN 0 ELSE Len(ar) - nbytes
         IN  [ret |-> 0, ar |-> SubSeq(ar, 1, file_size)]

(***************************************************************************)
(* create_archive                                                          *)
(***************************************************************************)
\* the fread / fwrite loop: the member's bytes, BLOCK_SIZE at a time from
\* position pos, the last block padded with zeros, written at the end of ar.
\* The loop ends when fread returns 0, at the end of the file or on an error.
RECURSIVE create_copy(_, _, _)
create_copy(ar, file, pos) ==
    LET bytes_read == IF file = Unreadable THEN 0 ELSE Min(BLOCK_SIZE, Len(file) - pos)
    IN  IF bytes_read <= 0 THEN ar
        ELSE create_copy(ar \o SubSeq(file, pos + 1, pos + bytes_read)
                            \o Rep(0, BLOCK_SIZE - bytes_read),
                         file, pos + bytes_read)

\* the number of blocks that loop writes for a file of `size` bytes, size
\* and result as octal digits: one block for every BLOCK_SIZE = 8^3 bytes
\* and one for what is left over
RECURSIVE IncOct(_)
IncOct(d) ==
    IF d = <<>> THEN <<1>>
    ELSE IF d[Len(d)] < 7 THEN SubSeq(d, 1, Len(d) - 1) \o <<d[Len(d)] + 1>>
    ELSE IncOct(SubSeq(d, 1, Len(d) - 1)) \o <<0>>

copy_blocks(size) ==
    LET p == PadZeros(size, 4)
        q == SubSeq(p, 1, Len(p) - 3)
        r == SubSeq(p, Len(p) - 2, Len(p))
    IN  StripZeros(IF r = <<0, 0, 0>> THEN q ELSE IncOct(q))

\* the loop over the list, from its i-th node on.  Returns [ret, ar].
RECURSIVE create_members(_, _, _, _, _)
create_members(ar, files, i, fsys, chsigned) ==
    IF i > Len(files) THEN [ret |-> 0, ar |-> ar]
    ELSE LET file == fsys[files[i]]
             h    == fill_tar_header(files[i], stat(file), chsigned)
         IN  IF file = NoFile THEN [ret |-> -1, ar |-> ar]
             ELSE IF h.ret # 0 THEN [ret |-> -1, ar |-> ar]
             ELSE create_members(create_copy(ar \o h.header, file, 0),
                                 files, i + 1, fsys, chsigned)

\* a create that writes the end marker whether the members were written or not
create_marked(files, fsys, chsigned) ==
    LET w == create_members(<<>>, files, 1, fsys, chsigned)
    IN  [ret |-> w.ret, ar |-> w.ar \o Rep(0, NUM_TRAILING_BLOCKS * BLOCK_SIZE)]

\* Returns [ret, ar]: the result and the archive file left on disk.
create_archive(files, fsys, chsigned) ==
    LET w == create_members(<<>>, files, 1, fsys, chsigned)
    IN  IF w.ret # 0 THEN w
        ELSE [ret |-> 0, ar |-> w.ar \o Rep(0, NUM_TRAILING_BLOCKS * BLOCK_SIZE)]

(***************************************************************************)
(* append_files_to_archive                                                 *)
(***************************************************************************)
RECURSIVE append_copy(_, _, _)
append_copy(ar, file, pos) ==
    LET bytes_read == IF file = Unreadable THEN 0 ELSE Min(512, Len(file) - pos)
    IN  IF bytes_read <= 0 THEN ar
        ELSE append_copy(ar \o SubSeq(file, pos + 1, pos + bytes_read)
                            \o Rep(0, 512 - bytes_read),
                         file, pos + bytes_read)

RECURSIVE append_members(_, _, _, _, _)
append_members(ar, files, i, fsys, chsigned) ==
    IF i > Len(files) THEN [ret |-> 0, ar |-> ar]
    ELSE LET file == fsys[files[i]]
             h    == fill_tar_header(files[i], stat(file), chsigned)
         IN  IF file = NoFile THEN [ret |-> -1, ar |-> ar]
             ELSE IF h.ret # 0 THEN [ret |-> -1, ar |-> ar]
             ELSE append_members(append_copy(ar \o h.header, file, 0),
                                 files, i + 1, fsys, chsigned)

\* an append that leaves the old end of the archive where it is
append_after_marker(ar, files, fsys, chsigned) ==
    IF ar = NoFile THEN [ret |-> -1, ar |-> ar]
    ELSE LET w == append_members(ar, files, 1, fsys, chsigned)
         IN  IF w.ret # 0 THEN w
             ELSE [ret |-> 0, ar |-> w.ar \o Rep(0, 2 * 512)]

append_files_to_archive(ar, files, fsys, chsigned) ==
    LET t == remove_trailing_bytes(ar, 2 * 512)
    IN  IF t.ret # 0 THEN [ret |-> -1, ar |-> ar]
        ELSE LET w == append_members(t.ar, files, 1, fsys, chsigned)
             IN  IF w.ret # 0 THEN w
                 ELSE [ret |-> 0, ar |-> w.ar \o Rep(0, 2 * 512)]

(***************************************************************************)
(* strtol(header.size, NULL, 8)                                            *)
(***************************************************************************)
IsSpace(b) == b = 32 \/ (b >= 9 /\ b <= 13)
IsOctDigit(b) == b >= 48 /\ b <= 55

RECURSIVE SkipSpace(_, _)
SkipSpace(buf, off) ==
    IF off < Len(buf) /\ IsSpace(buf[off + 1]) THEN SkipSpace(buf, off + 1) ELSE off

\* the value of the octal digits that start at offset off, after acc
RECURSIVE OctValue(_, _, _)
OctValue(buf, off, acc) ==
    IF off < Len(buf) /\ IsOctDigit(buf[off + 1])
    THEN OctValue(buf, off + 1, 8 * acc + (buf[off + 1] - 48))
    ELSE acc

strtol(buf, off) ==
    LET s == SkipSpace(buf, off)
        c == IF s < Len(buf) THEN buf[s + 1] ELSE 0
    IN  IF c = 45 THEN -OctValue(buf, s + 1, 0)
        ELSE IF c = 43 THEN OctValue(buf, s + 1, 0)
        ELSE OctValue(buf, s, 0)

(***************************************************************************)
(* get_archive_file_list                                                   *)
(***************************************************************************)
\* a scan loop that takes a single block of zeros for the end of the archive
RECURSIVE scan_one_zero(_, _, _)
scan_one_zero(ar, pos, files) ==
    IF Len(ar) - pos < BLOCK_SIZE THEN [ret |-> 0, files |-> files]
    ELSE
    LET header      == SubSeq(ar, pos + 1, pos + BLOCK_SIZE)
        current_pos == pos + BLOCK_SIZE
    IN  IF is_empty_block(header) THEN [ret |-> 0, files |-> files]
        ELSE
        LET added  == file_list_add(files, CStr(header, OFF_name))
            target == current_pos + CDiv(strtol(header, OFF_size) + 511, 512) * BLOCK_SIZE
        IN  IF target < 0 THEN [ret |-> -1, files |-> added]
            ELSE scan_one_zero(ar, target, added)

\* a scan that does not seek back after it looked at the block that follows
\* a block of zeros
RECURSIVE scan_no_rewind(_, _, _)
scan_no_rewind(ar, pos, files) ==
    IF Len(ar) - pos < BLOCK_SIZE THEN [ret |-> 0, files |-> files]
    ELSE
    LET header      == SubSeq(ar, pos + 1, pos + BLOCK_SIZE)
        current_pos == pos + BLOCK_SIZE
    IN  IF is_empty_block(header)
        THEN IF Len(ar) - current_pos < BLOCK_SIZE
             THEN [ret |-> 0, files |-> files]
             ELSE IF is_empty_block(SubSeq(ar, current_pos + 1, current_pos + BLOCK_SIZE))
             THEN [ret |-> 0, files |-> files]
             ELSE scan_no_rewind(ar, current_pos + BLOCK_SIZE, files)
        ELSE
        LET added  == file_list_add(files, CStr(header, OFF_name))
            target == current_pos + CDiv(strtol(header, OFF_size) + 511, 512) * BLOCK_SIZE
        IN  IF target < 0 THEN [ret |-> -1, files |-> added]
            ELSE scan_no_rewind(ar, target, added)

\* the scan loop with the read position at pos.  Returns [ret, files].
RECURSIVE list_scan(_, _, _)
list_scan(ar, pos, files) ==
    IF Len(ar) - pos < BLOCK_SIZE THEN [ret |-> 0, files |-> files]
    ELSE
    LET header      == SubSeq(ar, pos + 1, pos + BLOCK_SIZE)
        current_pos == pos + BLOCK_SIZE
    IN  IF is_empty_block(header)
        THEN IF Len(ar) - current_pos < BLOCK_SIZE
             THEN [ret |-> 0, files |-> files]
             ELSE IF is_empty_block(SubSeq(ar, current_pos + 1, current_pos + BLOCK_SIZE))
             THEN [ret |-> 0, files |-> files]
             ELSE list_scan(ar, current_pos, files)
        ELSE
        LET truncated_name == SubSeq(CStr(header, OFF_name), 1,
                                     Min(CStrLen(header, OFF_name), MAX_NAME_LEN))
            added          == file_list_add(files, truncated_name)
            file_size      == strtol(header, OFF_size)
            blocks_to_skip == CDiv(file_size + 511, 512)
            target         == current_pos + blocks_to_skip * BLOCK_SIZE
        IN  IF target < 0 THEN [ret |-> -1, files |-> added]
            ELSE list_scan(ar, target, added)

get_archive_file_list(ar, files) ==
    IF ar = NoFile THEN [ret |-> -1, files |-> files]
    ELSE list_scan(ar, 0, files)

(***************************************************************************)
(* extract_files_from_archive                                              *)
(***************************************************************************)
\* fopen(path, "wb") in directory dir: the file is created or emptied
\* what a directory holds under the path of a directory
Directory == <<-3>>

\* the part of a path before its last '/', <<>> if it has none
ParentOf(path) ==
    LET slashes == {i \in 1..Len(path) : path[i] = 47}
    IN  IF slashes = {} THEN <<>>
        ELSE SubSeq(path, 1, (CHOOSE i \in slashes : \A j \in slashes : j <= i) - 1)

\* fopen(path, "wb") succeeds: the directory the path names exists ("the
\* directories must already exist"), and the path is no directory
CanOpenForWrite(dir, path) ==
    /\ path # <<>> /\ path[Len(path)] # 47
    /\ [name |-> path, data |-> Directory] \notin dir
    /\ \/ ParentOf(path) = <<>>
       \/ [name |-> ParentOf(path), data |-> Directory] \in dir

OpenForWrite(dir, path) ==
    {f \in dir : f.name # path} \cup {[name |-> path, data |-> <<>>]}

WriteTo(dir, path, bytes) ==
    {IF f.name = path THEN [f EXCEPT !.data = @ \o bytes] ELSE f : f \in dir}

\* the for loop over the content blocks, from block i on, remaining bytes
\* left to write.  Returns [ret, dir, pos].
RECURSIVE extract_blocks(_, _, _, _, _, _, _)
extract_blocks(ar, pos, dir, path, i, blocks, remaining) ==
    IF i >= blocks THEN [ret |-> 0, dir |-> dir, pos |-> pos]
    ELSE IF Len(ar) - pos < BLOCK_SIZE THEN [ret |-> -1, dir |-> dir, pos |-> pos]
    ELSE LET to_write == IF remaining < BLOCK_SIZE THEN remaining ELSE BLOCK_SIZE
         IN  extract_blocks(ar, pos + BLOCK_SIZE,
                            WriteTo(dir, path, SubSeq(ar, pos + 1, pos + to_write)),
                            path, i + 1, blocks, remaining - to_write)

\* The archive stream while its own file is opened for writing: fopen(path,
\* "wb") empties the file, so the stream can deliver only what it holds in
\* its buffer, self.held bytes past the read position; how much that is
\* is up to the C library.  self.path is the path of the archive in the
\* directory the program runs in, NoPath if it lies elsewhere.
NoPath == <<-1>>
Elsewhere == [path |-> NoPath, held |-> 0]

StreamAfterOpen(ar, pos, path, self) ==
    IF path = self.path THEN SubSeq(ar, 1, Min(Len(ar), pos + self.held)) ELSE ar

\* the scan loop with the read position at pos.  Returns [ret, dir].
RECURSIVE extract_scan(_, _, _, _)
extract_scan(ar, pos, dir, self) ==
    IF Len(ar) - pos < BLOCK_SIZE THEN [ret |-> 0, dir |-> dir]
    ELSE
    LET header      == SubSeq(ar, pos + 1, pos + BLOCK_SIZE)
        current_pos == pos + BLOCK_SIZE
    IN  IF is_empty_block(header)
        THEN IF Len(ar) - current_pos < BLOCK_SIZE
             THEN [ret |-> 0, dir |-> dir]
             ELSE IF is_empty_block(SubSeq(ar, current_pos + 1, current_pos + BLOCK_SIZE))
             THEN [ret |-> 0, dir |-> dir]
             ELSE extract_scan(ar, current_pos, dir, self)
        ELSE
        LET prefix    == CStr(header, OFF_prefix)
            name      == CStr(header, OFF_name)
            formatted == IF header[OFF_prefix + 1] # 0
                         THEN prefix \o <<47>> \o name
                         ELSE name
            full_file_name == SubSeq(formatted, 1, Min(Len(formatted), 256 - 1))
            file_size == strtol(header, OFF_size)
            blocks    == CDiv(file_size + BLOCK_SIZE - 1, BLOCK_SIZE)
            stream    == StreamAfterOpen(ar, current_pos, full_file_name, self)
        IN  IF ~CanOpenForWrite(dir, full_file_name) THEN [ret |-> -1, dir |-> dir]
            ELSE LET c == extract_blocks(stream, current_pos,
                                         OpenForWrite(dir, full_file_name),
                                         full_file_name, 0, blocks, file_size)
                 IN  IF c.ret # 0 THEN [ret |-> -1, dir |-> c.dir]
                     ELSE extract_scan(stream, c.pos, c.dir, self)

\* dir is the directory the program runs in
extract_files_from_archive(ar, dir, self) ==
    IF ar = NoFile THEN [ret |-> -1, dir |-> dir]
    ELSE extract_scan(ar, 0, dir, self)

(***************************************************************************)
(* main, the -u branch                                                     *)
(***************************************************************************)
\* whether every node of files is in archive_list (the while loop)
AllContained(archive_list, files) ==
    \A i \in 1..Len(files) : file_list_contains(archive_list, files[i])

\* a -u branch that is content with one of the names being in the archive
update_if_some(ar, files, fsys, chsigned) ==
    LET l == get_archive_file_list(ar, <<>>)
        a == append_files_to_archive(ar, files, fsys, chsigned)
    IN  IF l.ret # 0 THEN [ret |-> 1, ar |-> ar]
        ELSE IF files # <<>>
                /\ ~\E i \in 1..Len(files) : file_list_contains(l.files, files[i])
        THEN [ret |-> 1, ar |-> ar]
        ELSE [ret |-> IF a.ret # 0 THEN 1 ELSE 0, ar |-> a.ar]

\* a -u branch that hands only the first of the names on to append
update_first(ar, files, fsys, chsigned) ==
    LET l == get_archive_file_list(ar, <<>>)
        a == append_files_to_archive(ar, SubSeq(files, 1, Min(1, Len(files))), fsys, chsigned)
    IN  IF l.ret # 0 THEN [ret |-> 1, ar |-> ar]
        ELSE IF ~AllContained(l.files, files) THEN [ret |-> 1, ar |-> ar]
        ELSE [ret |-> IF a.ret # 0 THEN 1 ELSE 0, ar |-> a.ar]

\* Returns [ret, ar]: main's exit status and the archive file left on disk.
update_archive(ar, files, fsys, chsigned) ==
    LET l == get_archive_file_list(ar, <<>>)
    IN  IF l.ret # 0 THEN [ret |-> 1, ar |-> ar]
        ELSE IF ~AllContained(l.files, files) THEN [ret |-> 1, ar |-> ar]
        ELSE LET a == append_files_to_archive(ar, files, fsys, chsigned)
             IN  [ret |-> IF a.ret # 0 THEN 1 ELSE 0, ar |-> a.ar]


(***************************************************************************)
(* The state: one build of the program, the directory of the member files, *)
(* the archive file, and the directory the last extraction ran in.         *)
(***************************************************************************)
VARIABLES
    chsigned,   \* whether char is a signed type in this build
    fs,         \* the member files: a file or NoFile for every path
    archive,    \* the archive file, or NoFile
    out,        \* the directory of the last extraction: a set of [name, data]
    last,       \* the last run of the program: [op, ret, files, listed]
    hist,       \* history: [ok, n, entries]; ok iff the archive is the work
                \* of a successful create and n successful appends or updates
                \* only, entries the [name, data] they were asked to store, in
                \* order
    nwrites,    \* runs of create, append and update so far
    segs,       \* how a hand-made archive was put together: its segments,
                \* or NotMade for any other archive
    hin,        \* the arguments of a call of fill_tar_header, or NoCall
    hout,       \* what that call returned: [ret, header], or NoCall
    scan,       \* the scan loops of list and of extract on the archive, one
                \* round of the loop at a time: for each of the two
                \* [state, pos, visited]
    io          \* a call of one of the four archive functions, followed
                \* through its I/O calls: [op, pc, left, blk, open, opened,
                \* end_of_archive, ret]

vars == <<chsigned, fs, archive, out, last, hist, nwrites, segs, hin, hout, io, scan>>

\* bounds of the model
MaxWrites == 2
MaxSegs == 4

NameA == <<97>>
NameB == <<98>>
\* a path as long as the name field
NameL == Rep(99, SZ_name)
\* a path at which there is no file
NameM == <<109>>
\* a path at which there is a member that cannot be read
NameD == <<100>>
Names == {NameA, NameB, NameL, NameM, NameD}

\* member file contents: shorter than a block and ending in a NUL, one byte
\* more than a block
Short == <<7, 0>>
Long == Rep(5, BLOCK_SIZE) \o <<6>>

\* the lists of members given on the command line
FileLists ==
    {<<>>, <<NameA>>, <<NameL>>, <<NameA, NameB>>, <<NameB, NameA>>, <<NameB, NameM>>,
     <<NameD>>, <<NameM>>}

\* what the archive path holds before the first run: nothing, or a few
\* bytes that are no archive
InitArchives == {NoFile, <<1, 2, 3>>}

\* no scan is followed
NoScan == [op \in {"list", "extract"} |-> [state |-> "IDLE", pos |-> 0, visited |-> <<>>]]

\* no call is followed
NoIo == [op |-> "none", pc |-> "idle", left |-> 0, blk |-> 0, open |-> {},
         opened |-> {}, end_of_archive |-> FALSE, ret |-> 1]

NoRun == [op |-> "none", ret |-> 0, files |-> <<>>, listed |-> <<>>]
NoCall == [ret |-> 1, header |-> <<>>]
NoHist == [ok |-> FALSE, n |-> 0, entries |-> <<>>]
NotMade == <<"-">>

\* the [name, data] the members of a list hold now
Entries(files, fsys) == [i \in 1..Len(files) |-> [name |-> files[i], data |-> fsys[files[i]]]]

InitFiles ==
    [n \in Names |-> IF n = NameA THEN Long
                     ELSE IF n = NameB THEN Rep(5, BLOCK_SIZE)
                     ELSE IF n = NameL THEN <<>>
                     ELSE IF n = NameD THEN Unreadable
                     ELSE NoFile]

Init ==
    /\ chsigned \in BOOLEAN
    /\ fs = InitFiles
    /\ archive \in InitArchives
    /\ out = {}
    /\ last = NoRun
    /\ hist = NoHist
    /\ nwrites = 0
    /\ segs = NotMade
    /\ hin = NoCall
    /\ hout = NoCall
    /\ io = NoIo
    /\ scan = NoScan

\* the user rewrites a member file
WriteMember(n, c) ==
    /\ fs[n] # c
    /\ fs' = [fs EXCEPT ![n] = c]
    /\ UNCHANGED <<chsigned, archive, out, last, hist, nwrites, segs, hin, hout, io, scan>>

\* minitar -c -f archive files...
Create(files) ==
    /\ nwrites < MaxWrites
    /\ LET r == create_archive(files, fs, chsigned)
       IN  /\ archive' = r.ar
           /\ last' = [op |-> "create", ret |-> r.ret, files |-> files, listed |-> <<>>]
           /\ hist' = IF r.ret = 0
                      THEN [ok |-> TRUE, n |-> 0, entries |-> Entries(files, fs)]
                      ELSE NoHist
    /\ nwrites' = nwrites + 1
    /\ out' = {}
    /\ segs' = IF archive' = archive THEN segs ELSE NotMade
    /\ UNCHANGED <<chsigned, fs, hin, hout, io, scan>>

\* minitar -a -f archive files...
AppendFiles(files) ==
    /\ nwrites < MaxWrites
    /\ LET r == append_files_to_archive(archive, files, fs, chsigned)
       IN  /\ archive' = r.ar
           /\ last' = [op |-> "append", ret |-> r.ret, files |-> files, listed |-> <<>>]
           /\ hist' = IF hist.ok /\ r.ret = 0
                      THEN [hist EXCEPT !.n = @ + 1,
                                        !.entries = @ \o Entries(files, fs)]
                      ELSE NoHist
    /\ nwrites' = nwrites + 1
    /\ out' = {}
    /\ segs' = IF archive' = archive THEN segs ELSE NotMade
    /\ UNCHANGED <<chsigned, fs, hin, hout, io, scan>>

\* minitar -u -f archive files...
Update(files) ==
    /\ nwrites < MaxWrites
    /\ LET r == update_archive(archive, files, fs, chsigned)
       IN  /\ archive' = r.ar
           /\ last' = [op |-> "update", ret |-> r.ret, files |-> files, listed |-> <<>>]
           /\ hist' = IF r.ar = archive THEN hist
                      ELSE IF hist.ok /\ r.ret = 0
                      THEN [hist EXCEPT !.n = @ + 1,
                                        !.entries = @ \o Entries(files, fs)]
                      ELSE NoHist
    /\ nwrites' = nwrites + 1
    /\ out' = {}
    /\ segs' = IF archive' = archive THEN segs ELSE NotMade
    /\ UNCHANGED <<chsigned, fs, hin, hout, io, scan>>

\* minitar -t -f archive
List ==
    /\ LET r == get_archive_file_list(archive, <<>>)
       IN  last' = [op |-> "list", ret |-> r.ret, files |-> <<>>, listed |-> r.files]
    /\ UNCHANGED <<chsigned, fs, archive, out, hist, nwrites, segs, hin, hout, io, scan>>

\* minitar -x -f archive, run in a clean directory
Extract ==
    /\ LET r == extract_files_from_archive(archive, {}, Elsewhere)
       IN  /\ out' = r.dir
           /\ last' = [op |-> "extract", ret |-> r.ret, files |-> <<>>, listed |-> <<>>]
    /\ UNCHANGED <<chsigned, fs, archive, hist, nwrites, segs, hin, hout, io, scan>>

Next ==
    \/ \E c \in {Short, Long} : WriteMember(NameA, c)
    \/ \E files \in FileLists : Create(files)
    \/ \E files \in FileLists : AppendFiles(files)
    \/ \E files \in FileLists : Update(files)
    \/ List
    \/ Extract

Spec == Init /\ [][Next]_vars

(***************************************************************************)
(* Hand-made archives.  An archive is put together from segments: "Z" a    *)
(* block of zeros, "A" and "B" entries as create_archive writes them, "N"  *)
(* the header of an entry whose size field reads as a negative number.     *)
(***************************************************************************)
Kinds == {"Z", "A", "B", "N"}
NameN == <<110>>
\* the path of the archive itself
NameT == <<116>>
\* the path of a directory beside the archive
NameP == <<112>>

EntryBytes(name, file, sg) ==
    create_copy(fill_tar_header(name, stat(file), sg).header, file, 0)

SegBytes(kind, sg) ==
    IF kind = "Z" THEN Rep(0, BLOCK_SIZE)
    ELSE IF kind = "A" THEN EntryBytes(NameA, Short, sg)
    ELSE IF kind = "B" THEN EntryBytes(NameB, Rep(5, BLOCK_SIZE), sg)
    ELSE IF kind = "T" THEN EntryBytes(NameT, Short, sg)
    ELSE IF kind = "L" THEN EntryBytes(NameL, <<>>, sg)
    ELSE IF kind = "X" THEN Store(EntryBytes(NameA, Short, sg), OFF_prefix, NameP)
    ELSE IF kind = "M" THEN Store(EntryBytes(NameN, <<>>, sg), OFF_size,
                                  <<45, 50, 48, 48, 48, 0>>)
    ELSE IF kind = "P" THEN <<1, 2, 3>>
    ELSE IF kind = "H" THEN SubSeq(EntryBytes(NameB, Rep(5, BLOCK_SIZE), sg), 1, BLOCK_SIZE)
    ELSE Store(EntryBytes(NameN, <<>>, sg), OFF_size, <<45>> \o Rep(55, 10))

RECURSIVE Cat(_, _)
Cat(ss, sg) == IF ss = <<>> THEN <<>> ELSE SegBytes(Head(ss), sg) \o Cat(Tail(ss), sg)

SegLists == UNION {[1..k -> Kinds] : k \in 0..MaxSegs}

InitScan ==
    /\ chsigned \in BOOLEAN
    /\ fs = InitFiles
    /\ segs \in SegLists
    /\ archive = Cat(segs, chsigned)
    /\ out = {}
    /\ last = NoRun
    /\ hist = NoHist
    /\ nwrites = MaxWrites - 1     \* the archive is there: one writing run is left
    /\ hin = NoCall
    /\ hout = NoCall
    /\ io = NoIo
    /\ scan = NoScan

NextScan ==
    \/ List
    \/ Extract
    \/ \E files \in {<<>>, <<NameA>>, <<NameA, NameB>>} : Update(files)

SpecScan == InitScan /\ [][NextScan]_vars

(***************************************************************************)
(* Archives as they are read.  Further segments: "T" an entry that bears   *)
(* the name of the archive, "L" an empty entry whose name is as long as    *)
(* the name field, "X" entry "A" with the prefix field set to NameP, and,  *)
(* where an archive was cut short, "H" the                                *)
(* header of entry "B" without its content block and "P" three bytes, a    *)
(* part of a block.  The archive lies at NameT; extract runs in a clean    *)
(* directory or in the directory of the archive.                           *)
(***************************************************************************)
ReadKinds == {"Z", "A", "B", "T"}
Tails == {<<>>, <<"P">>, <<"H">>, <<"H", "P">>}

\* archives with entry "L", whose name fills the name field
LongLists == {<<"L">>, <<"L", "Z">>, <<"Z", "L">>, <<"L", "B">>, <<"A", "L", "Z", "Z">>}

\* archives with entry "X", whose prefix field is set
PrefixLists == {<<"X">>, <<"X", "B">>, <<"A", "X">>, <<"X", "Z", "A">>}

ReadLists ==
    {body \o tail : body \in UNION {[1..k -> ReadKinds] : k \in 0..MaxSegs},
                    tail \in Tails}
        \cup LongLists \cup PrefixLists

\* what the stream of the archive may hold past the read position
HeldBytes == {0, BLOCK_SIZE, 2 * BLOCK_SIZE}

InitRead ==
    /\ chsigned \in BOOLEAN
    /\ fs = InitFiles
    /\ segs \in ReadLists
    /\ archive = Cat(segs, chsigned)
    /\ out = {}
    /\ last = NoRun
    /\ hist = NoHist
    /\ nwrites = MaxWrites - 1
    /\ hin = NoCall
    /\ hout = NoCall
    /\ io = NoIo
    /\ scan = NoScan

\* the directory of the archive: the archive and an empty directory
HereDir(ar) == {[name |-> NameT, data |-> ar], [name |-> NameP, data |-> Directory]}

\* minitar -x -f archive, run in the directory of the archive; out is the
\* files written beside the archive
ExtractHere(held) ==
    /\ archive # NoFile
    /\ LET r == extract_files_from_archive(archive, HereDir(archive),
                                           [path |-> NameT, held |-> held])
       IN  /\ out' = {f \in r.dir : f.name \notin {NameT, NameP}}
           /\ archive' = (CHOOSE f \in r.dir : f.name = NameT).data
           /\ last' = [op |-> "extract", ret |-> r.ret, files |-> <<>>, listed |-> <<>>]
    /\ segs' = IF archive' = archive THEN segs ELSE NotMade
    /\ UNCHANGED <<chsigned, fs, hist, nwrites, hin, hout, io, scan>>

NextRead ==
    \/ List
    \/ Extract
    \/ \E held \in HeldBytes : ExtractHere(held)

SpecRead == InitRead /\ [][NextRead]_vars

(***************************************************************************)
(* Calls of fill_tar_header on files of every size and owner.              *)
(***************************************************************************)
\* 2^32 - 1, 2^32 and 2^32 + 513 among the sizes; 2^21 among the ids
HdrSizes ==
    {<<0>>, <<1, 0, 0, 1>>, <<3>> \o Rep(7, 10), <<4>> \o Rep(0, 10),
     <<4, 0, 0, 0, 0, 0, 0, 1, 0, 0, 1>>}
HdrIds == {<<1, 7, 5, 0>>, <<1, 0, 0, 0, 0, 0, 0, 0>>}
HdrNames == {NameA, NameL, Rep(99, SZ_name + 1), <<195, 169>>}
HdrOwners == {<<117>>, <<195, 169>>, NoEntry}
HdrGroups == {<<103>>, NoEntry}

HdrStats ==
    {[ok |-> TRUE, mode |-> <<1, 0, 0, 6, 4, 4>>, uid |-> id, gid |-> id,
      size |-> sz, mtime |-> <<1, 4, 5, 0, 0, 0, 0, 0, 0, 0, 0>>,
      devmajor |-> <<1, 0>>, devminor |-> <<1>>, pw_name |-> pw, gr_name |-> gr] :
        id \in HdrIds, sz \in HdrSizes, pw \in HdrOwners, gr \in HdrGroups}

InitHdr ==
    /\ chsigned \in BOOLEAN
    /\ fs = InitFiles
    /\ segs = NotMade
    /\ archive = NoFile
    /\ out = {}
    /\ last = NoRun
    /\ hist = NoHist
    /\ nwrites = 0
    /\ hin \in {[file_name |-> n, st |-> st] : n \in HdrNames, st \in HdrStats \cup {NoStat}}
    /\ hout = NoCall
    /\ io = NoIo
    /\ scan = NoScan

\* fill_tar_header(&header, file_name)
FillHeader ==
    /\ hout = NoCall
    /\ hout' = fill_tar_header(hin.file_name, hin.st, chsigned)
    /\ UNCHANGED <<chsigned, fs, archive, out, last, hist, nwrites, segs, hin, io, scan>>

NextHdr == FillHeader

SpecHdr == InitHdr /\ [][NextHdr]_vars

(***************************************************************************)
(* The scan loops, one round at a time.  Further segment: "M" the header   *)
(* of an entry whose size field reads "-2000", minus two blocks.           *)
(***************************************************************************)
\* one round of the loop of get_archive_file_list with the read position at
\* pos.  Returns [state, pos, entry]: DONE when the loop ends and the
\* function returns 0, FAILED when it returns -1, SCANNING with the read
\* position of the next round otherwise; entry iff the block read was
\* taken for the header of an entry.
list_step(ar, pos) ==
    IF Len(ar) - pos < BLOCK_SIZE
    THEN [state |-> "DONE", pos |-> Max(pos, Len(ar)), entry |-> FALSE]
    ELSE
    LET header      == SubSeq(ar, pos + 1, pos + BLOCK_SIZE)
        current_pos == pos + BLOCK_SIZE
    IN  IF is_empty_block(header)
        THEN IF Len(ar) - current_pos < BLOCK_SIZE
             THEN [state |-> "DONE", pos |-> Len(ar), entry |-> FALSE]
             ELSE IF is_empty_block(SubSeq(ar, current_pos + 1, current_pos + BLOCK_SIZE))
             THEN [state |-> "DONE", pos |-> current_pos + BLOCK_SIZE, entry |-> FALSE]
             ELSE [state |-> "SCANNING", pos |-> current_pos, entry |-> FALSE]
        ELSE
        LET file_size      == strtol(header, OFF_size)
            blocks_to_skip == CDiv(file_size + 511, 512)
            target         == current_pos + blocks_to_skip * BLOCK_SIZE
        IN  IF target < 0 THEN [state |-> "FAILED", pos |-> current_pos, entry |-> TRUE]
            ELSE [state |-> "SCANNING", pos |-> target, entry |-> TRUE]

\* one round of the loop of extract_files_from_archive, run in a clean
\* directory
extract_step(ar, pos) ==
    IF Len(ar) - pos < BLOCK_SIZE
    THEN [state |-> "DONE", pos |-> Max(pos, Len(ar)), entry |-> FALSE]
    ELSE
    LET header      == SubSeq(ar, pos + 1, pos + BLOCK_SIZE)
        current_pos == pos + BLOCK_SIZE
    IN  IF is_empty_block(header)
        THEN IF Len(ar) - current_pos < BLOCK_SIZE
             THEN [state |-> "DONE", pos |-> Len(ar), entry |-> FALSE]
             ELSE IF is_empty_block(SubSeq(ar, current_pos + 1, current_pos + BLOCK_SIZE))
             THEN [state |-> "DONE", pos |-> current_pos + BLOCK_SIZE, entry |-> FALSE]
             ELSE [state |-> "SCANNING", pos |-> current_pos, entry |-> FALSE]
        ELSE
        LET prefix    == CStr(header, OFF_prefix)
            name      == CStr(header, OFF_name)
            formatted == IF header[OFF_prefix + 1] # 0
                         THEN prefix \o <<47>> \o name
                         ELSE name
            full_file_name == SubSeq(formatted, 1, Min(Len(formatted), 256 - 1))
            file_size == strtol(header, OFF_size)
            blocks    == CDiv(file_size + BLOCK_SIZE - 1, BLOCK_SIZE)
            read      == IF blocks > 0 THEN blocks * BLOCK_SIZE ELSE 0
        IN  IF ~CanOpenForWrite({}, full_file_name)
            THEN [state |-> "FAILED", pos |-> current_pos, entry |-> TRUE]
            ELSE IF Len(ar) - current_pos < read
            THEN [state |-> "FAILED", pos |-> Len(ar), entry |-> TRUE]
            ELSE [state |-> "SCANNING", pos |-> current_pos + read, entry |-> TRUE]

MaxVisits == 5

StepLists ==
    {body \o tail :
         body \in UNION {[1..k -> {"Z", "A", "B", "N", "M"}] : k \in 0..(MaxSegs - 1)},
         tail \in {<<>>, <<"H">>}}

InitStep ==
    /\ chsigned \in BOOLEAN
    /\ fs = InitFiles
    /\ segs \in StepLists
    /\ archive = Cat(segs, chsigned)
    /\ out = {}
    /\ last = NoRun
    /\ hist = NoHist
    /\ nwrites = MaxWrites - 1
    /\ hin = NoCall
    /\ hout = NoCall
    /\ io = NoIo
    /\ scan = [op \in {"list", "extract"} |-> [state |-> "SCANNING", pos |-> 0, visited |-> <<>>]]

\* where the scan of op is after the round r
AfterRound(op, r) ==
    [scan EXCEPT ![op] = [state |-> r.state, pos |-> r.pos,
                          visited |-> IF r.entry THEN Append(scan[op].visited, scan[op].pos)
                                      ELSE scan[op].visited]]

\* a round of the loop of get_archive_file_list
ListStep ==
    /\ scan["list"].state = "SCANNING"
    /\ Len(scan["list"].visited) < MaxVisits
    /\ scan' = AfterRound("list", list_step(archive, scan["list"].pos))
    /\ UNCHANGED <<chsigned, fs, archive, out, last, hist, nwrites, segs, hin, hout, io>>

\* a round of the loop of extract_files_from_archive
ExtractStep ==
    /\ scan["extract"].state = "SCANNING"
    /\ Len(scan["extract"].visited) < MaxVisits
    /\ scan' = AfterRound("extract", extract_step(archive, scan["extract"].pos))
    /\ UNCHANGED <<chsigned, fs, archive, out, last, hist, nwrites, segs, hin, hout, io>>

NextStep == ListStep \/ ExtractStep

SpecStep == InitStep /\ [][NextStep]_vars

(***************************************************************************)
(* The streams of a call.  A call of create_archive,                       *)
(* append_files_to_archive, get_archive_file_list or                       *)
(* extract_files_from_archive is followed from one I/O call to the next;   *)
(* every I/O call succeeds or fails.  io.open is the streams that are open *)
(* ("archive", "member", "out"), io.opened those the call has opened,      *)
(* io.left the members still to be written or the blocks still to be read  *)
(* at a header position, io.blk the content blocks of the member or entry  *)
(* at hand, io.end_of_archive the flag of the scan loops, io.ret the value  *)
(* returned, 1 while the call runs.                                        *)
(***************************************************************************)
MaxMembers == 2
MaxBlocks == 2

\* an error path that closes the last of the streams hs only
CloseLast(open, hs, oks) ==
    IF hs = <<>> THEN open ELSE open \ {hs[Len(hs)]}

\* fclose of the streams hs one after the other, as the error paths do it:
\*   if (fclose(h) != 0) { return -1; }
\* oks[k] says whether the k-th fclose succeeds.  A stream is closed by
\* fclose whether fclose succeeds or not; the fclose calls after one that
\* failed are not made.  Returns the streams that stay open.
RECURSIVE CloseEach(_, _, _)
CloseEach(open, hs, oks) ==
    IF hs = <<>> THEN open
    ELSE IF Head(oks) THEN CloseEach(open \ {Head(hs)}, Tail(hs), Tail(oks))
    ELSE open \ {Head(hs)}

\* return r with the streams `open` left open
Returned(r, open) == [io EXCEPT !.pc = "done", !.ret = r, !.open = open]

\* the error path: close the streams hs, return -1
Failed(hs, oks) == Returned(-1, CloseEach(io.open, hs, oks))

At(ops, pc) == io.op \in ops /\ io.pc = pc /\ io.ret = 1

Others == <<chsigned, fs, archive, out, last, hist, nwrites, segs, hin, hout, scan>>

\* a call of one of the functions, with n members in the list or n blocks
\* in the archive
Call(op, n) ==
    /\ io.pc = "idle"
    /\ io' = [NoIo EXCEPT !.op = op, !.left = n,
                          !.pc = IF op = "append" THEN "truncate" ELSE "fopen_archive"]
    /\ UNCHANGED Others

\* create_archive: fopen(archive_name, "wb")
CreateOpen(ok) ==
    /\ At({"create"}, "fopen_archive")
    /\ io' = IF ok THEN [io EXCEPT !.pc = "member", !.open = {"archive"},
                                   !.opened = {"archive"}]
             ELSE Returned(-1, {})
    /\ UNCHANGED Others

\* append_files_to_archive: remove_trailing_bytes(archive_name, 2 * 512)
AppendTruncate(ok) ==
    /\ At({"append"}, "truncate")
    /\ io' = IF ok THEN [io EXCEPT !.pc = "fopen_archive"] ELSE Returned(-1, {})
    /\ UNCHANGED Others

\* append_files_to_archive: fopen(archive_name, "a")
AppendOpen(ok) ==
    /\ At({"append"}, "fopen_archive")
    /\ io' = IF ok THEN [io EXCEPT !.pc = "fseek_end", !.open = {"archive"},
                                   !.opened = {"archive"}]
             ELSE Returned(-1, {})
    /\ UNCHANGED Others

\* append_files_to_archive: fseek(archive_fpointer, 0, SEEK_END)
AppendSeek(ok, ca) ==
    /\ At({"append"}, "fseek_end")
    /\ io' = IF ok THEN [io EXCEPT !.pc = "member"] ELSE Failed(<<"archive">>, <<ca>>)
    /\ UNCHANGED Others

\* The loop over the list is the same code in create_archive and in
\* append_files_to_archive.
Writers == {"create", "append"}

\* while (current != NULL): fopen(current->name, "rb"); the member has blk
\* blocks of content
OpenMember(ok, blk, ca) ==
    /\ At(Writers, "member")
    /\ io' = IF io.left = 0 THEN [io EXCEPT !.pc = "footer"]
             ELSE IF ok THEN [io EXCEPT !.pc = "fill_tar_header", !.blk = blk,
                                        !.open = @ \cup {"member"},
                                        !.opened = @ \cup {"member"}]
             ELSE Failed(<<"archive">>, <<ca>>)
    /\ UNCHANGED Others

\* fill_tar_header(&header, current->name)
FillMemberHeader(ok, cm, ca) ==
    /\ At(Writers, "fill_tar_header")
    /\ io' = IF ok THEN [io EXCEPT !.pc = "fwrite_header"]
             ELSE Failed(<<"member", "archive">>, <<cm, ca>>)
    /\ UNCHANGED Others

\* fwrite(&header, BLOCK_SIZE, 1, archive_fp)
WriteMemberHeader(ok, cm, ca) ==
    /\ At(Writers, "fwrite_header")
    /\ io' = IF ok THEN [io EXCEPT !.pc = "copy"]
             ELSE Failed(<<"member", "archive">>, <<cm, ca>>)
    /\ UNCHANGED Others

\* one round of while ((bytes_read = fread(...)) > 0): fread returns 0 at
\* the end of the member and when the read fails (rd false), and the loop
\* ends; otherwise the block is written
CopyBlock(rd, wr, cm, ca) ==
    /\ At(Writers, "copy")
    /\ io' = IF io.blk = 0 \/ ~rd THEN [io EXCEPT !.pc = "fclose_member"]
             ELSE IF wr THEN [io EXCEPT !.blk = @ - 1]
             ELSE Failed(<<"member", "archive">>, <<cm, ca>>)
    /\ UNCHANGED Others

\* if (fclose(file_fp) != 0) { printf(...); return -1; }
CloseMember(cm) ==
    /\ At(Writers, "fclose_member")
    /\ io' = IF cm THEN [io EXCEPT !.pc = "member", !.left = @ - 1,
                                   !.open = @ \ {"member"}]
             ELSE Returned(-1, io.open \ {"member"})
    /\ UNCHANGED Others

\* the two fwrite of the footer; ok iff both succeed
WriteFooter(ok, ca) ==
    /\ At(Writers, "footer")
    /\ io' = IF ok THEN [io EXCEPT !.pc = "fclose_archive"]
             ELSE Failed(<<"archive">>, <<ca>>)
    /\ UNCHANGED Others

\* the last fclose of the archive, in each of the four functions
CloseArchive(ca) ==
    /\ At({"create", "append", "list", "extract"}, "fclose_archive")
    /\ io' = Returned(IF ca THEN 0 ELSE -1, io.open \ {"archive"})
    /\ UNCHANGED Others

\* get_archive_file_list: fopen(archive_name, "rb")
ListOpen(ok) ==
    /\ At({"list"}, "fopen_archive")
    /\ io' = IF ok THEN [io EXCEPT !.pc = "read_header", !.open = {"archive"},
                                   !.opened = {"archive"}]
             ELSE Returned(-1, {})
    /\ UNCHANGED Others

\* what a read of a block at a header position finds
BlockKinds == {"short", "zero", "header"}

\* the loop condition and the body for a header: fread of the header, short
\* when no block is left; for a block that is not empty file_list_add (add)
\* and the fseek over the content (sk)
ListReadHeader(kind, add, sk, ca) ==
    /\ At({"list"}, "read_header")
    /\ io' = IF io.end_of_archive \/ io.left = 0 \/ kind = "short"
             THEN [io EXCEPT !.pc = "ferror"]
             ELSE IF kind = "zero" THEN [io EXCEPT !.pc = "peek", !.left = @ - 1]
             ELSE IF add /\ sk THEN [io EXCEPT !.left = @ - 1]
             ELSE Failed(<<"archive">>, <<ca>>)
    /\ UNCHANGED Others

\* after an empty block: fread of the next block, break when it is short,
\* end_of_archive = 1 when it is empty, fseek back (sk) when it is not
ListPeek(kind, sk, ca) ==
    /\ At({"list"}, "peek")
    /\ io' = IF io.left = 0 \/ kind = "short" THEN [io EXCEPT !.pc = "ferror"]
             ELSE IF kind = "zero"
             THEN [io EXCEPT !.pc = "read_header", !.end_of_archive = TRUE, !.left = @ - 1]
             ELSE IF sk THEN [io EXCEPT !.pc = "read_header"]
             ELSE Failed(<<"archive">>, <<ca>>)
    /\ UNCHANGED Others

\* after the loop: if (ferror(archive) != 0)
ListAfterLoop(err, ca) ==
    /\ At({"list"}, "ferror")
    /\ io' = IF err THEN Failed(<<"archive">>, <<ca>>)
             ELSE [io EXCEPT !.pc = "fclose_archive"]
    /\ UNCHANGED Others

\* extract_files_from_archive: fopen(archive_name, "rb")
ExtractOpen(ok) ==
    /\ At({"extract"}, "fopen_archive")
    /\ io' = IF ok THEN [io EXCEPT !.pc = "read_header", !.open = {"archive"},
                                   !.opened = {"archive"}]
             ELSE Returned(-1, {})
    /\ UNCHANGED Others

\* the loop condition; for an empty block ftell (tell)
ExtractReadHeader(kind, tell, ca) ==
    /\ At({"extract"}, "read_header")
    /\ io' = IF io.end_of_archive \/ io.left = 0 \/ kind = "short"
             THEN [io EXCEPT !.pc = "fclose_archive"]
             ELSE IF kind = "header" THEN [io EXCEPT !.pc = "fopen_out", !.left = @ - 1]
             ELSE IF tell THEN [io EXCEPT !.pc = "peek", !.left = @ - 1]
             ELSE Failed(<<"archive">>, <<ca>>)
    /\ UNCHANGED Others

ExtractPeek(kind, sk, ca) ==
    /\ At({"extract"}, "peek")
    /\ io' = IF io.left = 0 \/ kind = "short" THEN [io EXCEPT !.pc = "fclose_archive"]
             ELSE IF kind = "zero"
             THEN [io EXCEPT !.pc = "read_header", !.end_of_archive = TRUE, !.left = @ - 1]
             ELSE IF sk THEN [io EXCEPT !.pc = "read_header"]
             ELSE Failed(<<"archive">>, <<ca>>)
    /\ UNCHANGED Others

\* fopen(full_file_name, "wb"); the entry declares blk blocks of content
ExtractOpenOut(ok, blk, ca) ==
    /\ At({"extract"}, "fopen_out")
    /\ io' = IF ok THEN [io EXCEPT !.pc = "block", !.blk = blk,
                                   !.open = @ \cup {"out"}, !.opened = @ \cup {"out"}]
             ELSE Failed(<<"archive">>, <<ca>>)
    /\ UNCHANGED Others

\* one round of for (i = 0; i < blocks; i++): fread of a content block (rd
\* false when it is short), fwrite to the output file (wr)
ExtractBlock(rd, wr, co, ca) ==
    /\ At({"extract"}, "block")
    /\ io' = IF io.blk = 0 THEN [io EXCEPT !.pc = "fclose_out"]
             ELSE IF rd /\ wr THEN [io EXCEPT !.blk = @ - 1]
             ELSE Failed(<<"out", "archive">>, <<co, ca>>)
    /\ UNCHANGED Others

\* if (fclose(out) != 0) { perror(...); return -1; }
ExtractCloseOut(co) ==
    /\ At({"extract"}, "fclose_out")
    /\ io' = IF co THEN [io EXCEPT !.pc = "read_header", !.open = @ \ {"out"}]
             ELSE Returned(-1, io.open \ {"out"})
    /\ UNCHANGED Others

InitIO ==
    /\ chsigned \in BOOLEAN
    /\ fs = InitFiles
    /\ segs = NotMade
    /\ archive = NoFile
    /\ out = {}
    /\ last = NoRun
    /\ hist = NoHist
    /\ nwrites = 0
    /\ hin = NoCall
    /\ hout = NoCall
    /\ io = NoIo
    /\ scan = NoScan

NextIO ==
    \/ \E op \in {"create", "append", "list", "extract"}, n \in 0..MaxMembers : Call(op, n)
    \/ \E ok \in BOOLEAN : CreateOpen(ok)
    \/ \E ok \in BOOLEAN : AppendTruncate(ok)
    \/ \E ok \in BOOLEAN : AppendOpen(ok)
    \/ \E ok, ca \in BOOLEAN : AppendSeek(ok, ca)
    \/ \E ok, ca \in BOOLEAN, blk \in 0..MaxBlocks : OpenMember(ok, blk, ca)
    \/ \E ok, cm, ca \in BOOLEAN : FillMemberHeader(ok, cm, ca)
    \/ \E ok, cm, ca \in BOOLEAN : WriteMemberHeader(ok, cm, ca)
    \/ \E rd, wr, cm, ca \in BOOLEAN : CopyBlock(rd, wr, cm, ca)
    \/ \E cm \in BOOLEAN : CloseMember(cm)
    \/ \E ok, ca \in BOOLEAN : WriteFooter(ok, ca)
    \/ \E ca \in BOOLEAN : CloseArchive(ca)
    \/ \E ok \in BOOLEAN : ListOpen(ok)
    \/ \E kind \in BlockKinds, add, sk, ca \in BOOLEAN : ListReadHeader(kind, add, sk, ca)
    \/ \E kind \in BlockKinds, sk, ca \in BOOLEAN : ListPeek(kind, sk, ca)
    \/ \E err, ca \in BOOLEAN : ListAfterLoop(err, ca)
    \/ \E ok \in BOOLEAN : ExtractOpen(ok)
    \/ \E kind \in BlockKinds, tell, ca \in BOOLEAN : ExtractReadHeader(kind, tell, ca)
    \/ \E kind \in BlockKinds, sk, ca \in BOOLEAN : ExtractPeek(kind, sk, ca)
    \/ \E ok, ca \in BOOLEAN, blk \in 0..MaxBlocks : ExtractOpenOut(ok, blk, ca)
    \/ \E rd, wr, co, ca \in BOOLEAN : ExtractBlock(rd, wr, co, ca)
    \/ \E co \in BOOLEAN : ExtractCloseOut(co)

SpecIO == InitIO /\ [][NextIO]_vars

(***************************************************************************)
(* Properties of the header codec, under SpecHdr.                          *)
(***************************************************************************)
Field(header, off, n) == SubSeq(header, off + 1, off + n)

\* the octal digits a field of digit characters holds
FieldDigits(header, off, n) ==
    StripZeros([i \in 1..n |-> Field(header, off, n)[i] - 48])

\* the sum of the 512 bytes as values 0..255, the checksum field as spaces
UnsignedSum(header) ==
    BagCardinality(SelectSeq(Store(header, OFF_chksum, Rep(32, SZ_chksum)), NonZero))

HeaderMade == hout # NoCall /\ hout.ret = 0

\* C9 - checksum validity: in every header fill_tar_header produces, the
\* checksum field is the zero-padded 7-digit octal text, with its
\* terminator, of the sum of the 512 header bytes taken as unsigned values,
\* the checksum field counted as eight spaces.
C9_ChecksumValidity ==
    HeaderMade =>
        Field(hout.header, OFF_chksum, SZ_chksum)
            = FmtOctal(Oct(UnsignedSum(hout.header)), 7) \o <<0>>

\* C10 - size field exactness: the size field of every header
\* fill_tar_header produces is 11 octal digits and a terminator that decode
\* to the byte length of the file, which is also the number of content
\* bytes the writer stores, whatever that length, 2^32 and above included.
C10_SizeFieldExact ==
    HeaderMade =>
        /\ \A i \in 1..11 : IsOctDigit(hout.header[OFF_size + i])
        /\ hout.header[OFF_size + SZ_size] = 0
        /\ FieldDigits(hout.header, OFF_size, 11) = StripZeros(hin.st.size)

\* C6 - archive well-formedness: the header of an entry is followed by
\* exactly ceil(size / 512) content blocks, size being the size the header
\* declares: the blocks the writer stores for a member are as many as the
\* size field of its header says.
C6_DeclaredBlocks ==
    HeaderMade =>
        copy_blocks(FieldDigits(hout.header, OFF_size, 11)) = copy_blocks(hin.st.size)

(***************************************************************************)
(* Properties of the runs of the program, under Spec.                      *)
(***************************************************************************)
NamesOf(entries) == [i \in 1..Len(entries) |-> entries[i].name]

\* the step taken is a run of the named writing operation
IsRun(op) == last'.op = op /\ nwrites' = nwrites + 1

\* the names the Scanner yields for the archive as it is now
Yielded == get_archive_file_list(archive, <<>>).files

EntryBlocks(e) == 1 + (Len(e.data) + BLOCK_SIZE - 1) \div BLOCK_SIZE

\* the number of blocks the entries before the i-th take
RECURSIVE BlocksBefore(_, _)
BlocksBefore(entries, i) ==
    IF i = 1 THEN 0
    ELSE BlocksBefore(entries, i - 1) + EntryBlocks(entries[i - 1])

\* ar is the entries in order, each a header that names it and declares its
\* size, its content, zeros up to the end of the block, and then two blocks
\* of zeros
WellFormedArchive(ar, entries) ==
    LET n     == Len(entries)
        total == BlocksBefore(entries, n + 1)
    IN  /\ ar # NoFile
        /\ Len(ar) = BLOCK_SIZE * (total + NUM_TRAILING_BLOCKS)
        /\ \A i \in 1..n :
              LET off == BLOCK_SIZE * BlocksBefore(entries, i)
                  sz  == Len(entries[i].data)
              IN  /\ Field(ar, off + OFF_name, SZ_name) = strncpy(entries[i].name, SZ_name)
                  /\ strtol(Field(ar, off + OFF_size, SZ_size), 0) = sz
                  /\ SubSeq(ar, off + BLOCK_SIZE + 1, off + BLOCK_SIZE + sz) = entries[i].data
                  /\ \A k \in (off + BLOCK_SIZE + sz + 1)..(off + BLOCK_SIZE * EntryBlocks(entries[i])) :
                        ar[k] = 0
        /\ \A k \in (BLOCK_SIZE * total + 1)..Len(ar) : ar[k] = 0

\* The archives these runs build of members that can be read, which are far
\* shorter than 2^32 bytes, are well formed.
WellFormedHere ==
    (hist.ok /\ \A i \in 1..Len(hist.entries) : hist.entries[i].data # Unreadable)
        => WellFormedArchive(archive, hist.entries)

\* C1 - round trip: create_archive followed by extract_files_from_archive
\* into a clean directory succeeds and leaves, for every member, a file of
\* the member's name with exactly the member's bytes.
C1_RoundTrip ==
    (last.op = "extract" /\ hist.ok /\ hist.n = 0) =>
        /\ last.ret = 0
        /\ \A i \in 1..Len(hist.entries) : hist.entries[i] \in out

\* C2 - append then list: after a successful create and any number of
\* successful appends and updates, get_archive_file_list succeeds and
\* yields the names given to them, run after run, in order, each as often
\* as it was given.
C2_AppendThenList ==
    (last.op = "list" /\ hist.ok) =>
        (last.ret = 0 /\ last.listed = NamesOf(hist.entries))

\* the last entry of that name
LastOf(entries, nm) ==
    entries[CHOOSE j \in 1..Len(entries) :
               /\ entries[j].name = nm
               /\ \A k \in (j + 1)..Len(entries) : entries[k].name # nm]

Occurrences(entries, nm) == Cardinality({j \in 1..Len(entries) : entries[j].name = nm})

\* C3 - duplicate names: when the archive holds several entries of one
\* name, extraction leaves exactly one file of that name, and it holds the
\* content of the last of them.
C3_LastEntryWins ==
    (last.op = "extract" /\ hist.ok) =>
        \A i \in 1..Len(hist.entries) :
            LET nm == hist.entries[i].name
            IN  Occurrences(hist.entries, nm) >= 2 =>
                    {f \in out : f.name = nm} = {LastOf(hist.entries, nm)}

\* C4 - update rejection: a run of update in which one of the names given
\* is not among the names the Scanner yields for the archive fails and
\* leaves the archive file as it was, byte for byte.
C4_UpdateRejection ==
    [][(/\ IsRun("update")
        /\ \E i \in 1..Len(last'.files) :
              ~\E j \in 1..Len(Yielded) : Yielded[j] = last'.files[i])
       => (last'.ret # 0 /\ archive' = archive)]_vars

\* an update was rejected although one of its names is in the archive
C4_Rejected ==
    /\ last.op = "update" /\ last.ret # 0 /\ hist.ok
    /\ \E i \in 1..Len(last.files) : Occurrences(hist.entries, last.files[i]) > 0
    /\ \E i \in 1..Len(last.files) : Occurrences(hist.entries, last.files[i]) = 0

\* C8 - create overwrites: whatever the archive file held, after a
\* successful create_archive it is the entries of the list given and the
\* end marker and nothing else, and get_archive_file_list yields exactly
\* the names of the list.
C8_CreateOverwrites ==
    [][(IsRun("create") /\ last'.ret = 0)
       => /\ WellFormedArchive(archive', Entries(last'.files, fs))
          /\ get_archive_file_list(archive', <<>>)
                = [ret |-> 0, files |-> last'.files]]_vars

(***************************************************************************)
(* Properties of the scan of hand-made archives, under SpecScan.           *)
(***************************************************************************)
NameOfKind(kind) ==
    IF kind = "A" THEN NameA
    ELSE IF kind = "B" THEN NameB
    ELSE IF kind = "T" THEN NameT
    ELSE IF kind = "L" THEN NameL
    ELSE NameN

\* where the first two blocks of zeros in a row are, 0 if there are none
FirstPair(ss) ==
    LET pairs == {k \in 1..(Len(ss) - 1) : ss[k] = "Z" /\ ss[k + 1] = "Z"}
    IN  IF pairs = {} THEN 0 ELSE CHOOSE k \in pairs : \A m \in pairs : k <= m

\* the names of the entries among the segments, up to the first whose size
\* cannot be skipped
RECURSIVE YieldOf(_)
YieldOf(ss) ==
    IF ss = <<>> THEN <<>>
    ELSE IF Head(ss) = "Z" THEN YieldOf(Tail(ss))
    ELSE IF Head(ss) = "N" THEN <<NameN>>
    ELSE <<NameOfKind(Head(ss))>> \o YieldOf(Tail(ss))

\* C7 - end marker: listing an archive of exactly two blocks of zeros
\* succeeds with no names; and the scan stops at the first two blocks of
\* zeros in a row at a header position: what list yields, and what extract
\* writes, comes from the entries before them only.
C7_EndMarker ==
    /\ (last.op = "list" /\ segs = <<"Z", "Z">>) =>
           (last.ret = 0 /\ last.listed = <<>>)
    /\ (last.op = "list" /\ FirstPair(segs) > 0) =>
           last.listed = YieldOf(SubSeq(segs, 1, FirstPair(segs) - 1))
    /\ (last.op = "extract" /\ FirstPair(segs) > 0) =>
           \A f \in out : \E k \in 1..(FirstPair(segs) - 1) :
               segs[k] # "Z" /\ f.name = NameOfKind(segs[k])

\* a listing of an archive with entries before and after its first end marker
C7_EntryAfterMarker ==
    /\ last.op = "list" /\ last.ret = 0 /\ last.listed # <<>>
    /\ FirstPair(segs) > 0
    /\ \E k \in (FirstPair(segs) + 2)..Len(segs) : segs[k] \in {"A", "B"}

AllYielded(files) ==
    \A i \in 1..Len(files) : \E j \in 1..Len(Yielded) : Yielded[j] = files[i]

\* the step left what append_files_to_archive leaves, given the same
\* archive and the same list
AsAppend ==
    LET a == append_files_to_archive(archive, last'.files, fs, chsigned)
    IN  archive' = a.ar /\ (last'.ret = 0 <=> a.ret = 0)

\* C5 - update acceptance: when the scan of the archive succeeds and every
\* name given is among the names it yields, update does what
\* append_files_to_archive does with the same archive and list.
C5_UpdateAcceptance ==
    [][(/\ IsRun("update")
        /\ get_archive_file_list(archive, <<>>).ret = 0
        /\ AllYielded(last'.files))
       => AsAppend]_vars

\* C5 as stated: whenever every name given is among the names the Scanner
\* yields for the archive, update does what append_files_to_archive does.
C5_AsStated ==
    [][(IsRun("update") /\ AllYielded(last'.files)) => AsAppend]_vars

\* an update of two members that are in the archive has gone through
C5_Accepted ==
    last.op = "update" /\ last.ret = 0 /\ Len(last.files) = 2

(***************************************************************************)
(* Properties of the reading runs, under SpecRead.                         *)
(***************************************************************************)
\* the step taken is a run of list or of extract
IsReadRun == last' # last /\ last'.op \in {"list", "extract"} /\ nwrites' = nwrites

\* C11 - listing is read-only and repeatable: a run of list or of extract
\* leaves the archive file as it was, byte for byte, so that a second
\* listing yields the names of the first.
C11_ReadOnly ==
    [][IsReadRun =>
          /\ archive' = archive
          /\ get_archive_file_list(archive', <<>>) = get_archive_file_list(archive, <<>>)]_vars

IsEntry(kind) == kind # "Z"

\* the archive of the same segments without its blocks of zeros
WithoutZeros == Cat(SelectSeq(segs, IsEntry), chsigned)

\* where extract may have run: in a clean directory, or in the directory of
\* the archive with a stream that holds some bytes
Runs == {Elsewhere} \cup {[path |-> NameT, held |-> h] : h \in HeldBytes}

\* what extract leaves beside the archive when it runs as self does
ExtractedBy(ar, self) ==
    LET r == extract_files_from_archive(
                 ar, IF self = Elsewhere THEN {} ELSE HereDir(ar), self)
    IN  [ret |-> r.ret,
         files |-> IF self = Elsewhere THEN r.dir
                   ELSE {f \in r.dir : f.name \notin {NameT, NameP}}]

\* C12 - lookahead and rewind: when every block of zeros at a header
\* position is a lone one, the scan goes on right after it: list yields the
\* names, and extract writes the files, of the archive that holds the same
\* entries and no block of zeros, each entry once and in order.
C12_LoneZeroSkipped ==
    [][(IsReadRun /\ segs # NotMade /\ FirstPair(segs) = 0) =>
          /\ last'.op = "list" =>
                 /\ last'.ret = get_archive_file_list(WithoutZeros, <<>>).ret
                 /\ last'.listed = get_archive_file_list(WithoutZeros, <<>>).files
          /\ last'.op = "extract" =>
                 \E self \in Runs :
                     /\ last'.ret = ExtractedBy(WithoutZeros, self).ret
                     /\ out' = ExtractedBy(WithoutZeros, self).files]_vars

\* a listing of an archive in which a lone block of zeros is followed by an
\* entry, which is listed
C12_EntryAfterLoneZero ==
    /\ last.op = "list" /\ last.ret = 0
    /\ segs # NotMade /\ FirstPair(segs) = 0
    /\ \E k \in 1..(Len(segs) - 1) : segs[k] = "Z" /\ segs[k + 1] = "B"
    /\ \E j \in 1..Len(last.listed) : last.listed[j] = NameB

\* the archive was cut short, and the scan gets to where it was cut
CutShort ==
    /\ segs # NotMade /\ segs # <<>> /\ FirstPair(segs) = 0
    /\ segs[Len(segs)] \in {"P", "H"}

\* C13 - truncated archives are errors: list and extract of an archive that
\* ends in a part of a block, or in a header without the content blocks it
\* declares, fail.
C13_TruncatedFails ==
    (last.op \in {"list", "extract"} /\ CutShort) => last.ret # 0

\* the content of the entry of a kind
DataOfKind(kind) ==
    IF kind = "B" THEN Rep(5, BLOCK_SIZE) ELSE IF kind = "L" THEN <<>> ELSE Short

\* the segments are complete entries and lone blocks of zeros: the archive
\* ends at a header position and has no end marker
NoEndMarker ==
    /\ segs # NotMade /\ FirstPair(segs) = 0
    /\ \A i \in 1..Len(segs) : segs[i] \in {"Z", "A", "B", "T", "L"}

EntriesHere == SelectSeq(segs, IsEntry)

\* C14 - a missing end marker is tolerated on read: for an archive of
\* complete entries that ends at a header position without an end marker,
\* after at most one block of zeros, list succeeds and yields the name of
\* every entry in order, and extract succeeds and has written a file of
\* the name and the content of every entry.
C14_NoMarkerTolerated ==
    /\ (last.op = "list" /\ NoEndMarker) =>
           /\ last.ret = 0
           /\ last.listed = [i \in 1..Len(EntriesHere) |-> NameOfKind(EntriesHere[i])]
    /\ (last.op = "extract" /\ NoEndMarker) =>
           /\ last.ret = 0
           /\ \A i \in 1..Len(EntriesHere) :
                 [name |-> NameOfKind(EntriesHere[i]),
                  data |-> DataOfKind(EntriesHere[i])] \in out

(***************************************************************************)
(* Properties of the writing runs, under Spec.                             *)
(***************************************************************************)
MarkerBytes == NUM_TRAILING_BLOCKS * BLOCK_SIZE

EndsWithMarker(ar) ==
    /\ ar # NoFile /\ Len(ar) >= MarkerBytes
    /\ \A k \in (Len(ar) - MarkerBytes + 1)..Len(ar) : ar[k] = 0

\* the archive without its last 1024 bytes, or without all it has
CutOff(ar) == SubSeq(ar, 1, Max(0, Len(ar) - MarkerBytes))

AllReadable(files) == \A i \in 1..Len(files) : fs[files[i]] \notin {NoFile, Unreadable}

\* ar is `front` followed by `entries` and an end marker
ExtendedBy(ar, front, entries) ==
    /\ ar # NoFile /\ Len(ar) >= Len(front)
    /\ SubSeq(ar, 1, Len(front)) = front
    /\ WellFormedArchive(SubSeq(ar, Len(front) + 1, Len(ar)), entries)

\* C15 - append does not detect a missing end marker: a run of append on an
\* archive that does not end with two blocks of zeros, with members that
\* can all be read, succeeds all the same, and leaves the archive without
\* its last 1024 bytes, whatever they were, followed by the new entries and
\* an end marker.
C15_AppendCutsUnchecked ==
    [][(/\ IsRun("append") /\ archive # NoFile /\ ~EndsWithMarker(archive)
        /\ AllReadable(last'.files))
       => /\ last'.ret = 0
          /\ ExtendedBy(archive', CutOff(archive), Entries(last'.files, fs))]_vars

\* the three bytes the archive path held at first were cut off by a first
\* run, an append that went through: the archive is its entries and no more
C15_AppendedToNoArchive ==
    /\ last.op = "append" /\ last.ret = 0 /\ nwrites = 1
    /\ last.files # <<>>
    /\ WellFormedArchive(archive, Entries(last.files, fs))

\* C16 - append ordering: a run of append on an archive file that is there
\* first cuts 1024 bytes off its end, or all of it when it is shorter, and
\* that before any member is opened: the cut is made even when the first
\* member is missing.  Behind the cut it writes what create_archive writes
\* for the same list, entry after entry, and the end marker only when the
\* last entry is written; it fails only where create_archive fails.
C16_AppendOrdering ==
    [][(IsRun("append") /\ archive # NoFile) =>
          LET c == create_archive(last'.files, fs, chsigned)
          IN  /\ archive' = CutOff(archive) \o c.ar
              /\ last'.ret = c.ret
              /\ last'.ret = 0 => EndsWithMarker(archive')
              /\ (last'.files # <<>> /\ fs[last'.files[1]] = NoFile) =>
                     (last'.ret # 0 /\ archive' = CutOff(archive))
              /\ Len(archive) < MarkerBytes =>
                     (archive' = c.ar /\ (AllReadable(last'.files) => last'.ret = 0))]_vars

\* an append to an archive of one entry wrote the entry of its first member
\* behind it and failed at the second: the old end marker is gone and no
\* new one is there
C16_CutThenFailed ==
    /\ last.op = "append" /\ last.ret # 0 /\ nwrites = 2
    /\ last.files = <<NameB, NameM>>
    /\ archive # NoFile /\ Len(archive) > MarkerBytes /\ ~EndsWithMarker(archive)

\* C17 - fail-fast on every I/O failure: a run of create or of append in
\* which a member cannot be opened, or a read of its content fails, returns
\* failure.
C17_FailFast ==
    [][((IsRun("create") \/ IsRun("append")) /\ ~AllReadable(last'.files))
       => last'.ret # 0]_vars

\* the first member of the list that is not there, 0 if all are
FirstMissing(files) ==
    LET missing == {i \in 1..Len(files) : fs[files[i]] = NoFile}
    IN  IF missing = {} THEN 0 ELSE CHOOSE i \in missing : \A j \in missing : i <= j

\* ar is the entries in order and nothing else: no end marker
EntriesOnly(ar, entries) ==
    /\ ar # NoFile
    /\ WellFormedArchive(ar \o Rep(0, MarkerBytes), entries)
    /\ ~EndsWithMarker(ar)

\* C18 - partial archive on create failure: a run of create whose k-th
\* member is the first that cannot be opened fails, and the archive file it
\* leaves is the entries of the k-1 members before it, complete and in
\* order, and nothing else: no end marker, nothing of the k-th member,
\* nothing of what the file held before.
C18_PartialArchive ==
    [][(IsRun("create") /\ FirstMissing(last'.files) > 0) =>
          /\ last'.ret # 0
          /\ EntriesOnly(archive',
                         Entries(SubSeq(last'.files, 1, FirstMissing(last'.files) - 1), fs))]_vars

\* a create of <<b, m>> has failed at m and left the entry of b: a header
\* and one block of content
C18_FailedAtSecond ==
    /\ last.op = "create" /\ last.ret # 0
    /\ last.files = <<NameB, NameM>>
    /\ Len(archive) = 2 * BLOCK_SIZE

\* the names of the members a failed run wrote completely: those before the
\* first that is not there
WrittenBefore(files) == SubSeq(files, 1, FirstMissing(files) - 1)

\* C19 - a failed append preserves the earlier entries: when a run of append
\* fails on an archive that ended with two blocks of zeros, the bytes before
\* those two blocks are as they were, the archive has no end marker, and
\* list succeeds and yields the names it yielded before followed by the
\* names of the members written before the failure.
C19_FailedAppendKeeps ==
    [][(IsRun("append") /\ last'.ret # 0 /\ EndsWithMarker(archive)) =>
          /\ Len(archive') >= Len(CutOff(archive))
          /\ SubSeq(archive', 1, Len(CutOff(archive))) = CutOff(archive)
          /\ ~EndsWithMarker(archive')
          /\ get_archive_file_list(archive', <<>>)
                = [ret |-> 0, files |-> Yielded \o WrittenBefore(last'.files)]]_vars

\* the first 100 bytes of a path
NameField(path) == SubSeq(path, 1, Min(Len(path), SZ_name))

ReadableEntries == \A i \in 1..Len(hist.entries) : hist.entries[i].data # Unreadable

\* C20 - name truncation: for the archive that create, append and update
\* built of members that can be read, the names list yields are the first
\* 100 bytes of the members' paths, and extract writes a file under the
\* first 100 bytes of the path of every member: no byte of another header
\* field is added to a name, whether the path is shorter than 100 bytes,
\* 100 bytes long or longer.
C20_NameTruncation ==
    /\ (last.op = "list" /\ hist.ok /\ ReadableEntries) =>
           last.listed = [i \in 1..Len(hist.entries) |-> NameField(hist.entries[i].name)]
    /\ (last.op = "extract" /\ hist.ok /\ ReadableEntries) =>
           {f.name : f \in out} = {NameField(hist.entries[i].name) : i \in 1..Len(hist.entries)}

\* the path extract is to write the entry of a kind to
PathOfKind(kind) ==
    IF kind = "X" THEN NameP \o <<47>> \o NameA ELSE NameOfKind(kind)

\* the segments are complete entries and lone blocks of zeros
CompleteEntries ==
    /\ segs # NotMade /\ FirstPair(segs) = 0
    /\ \A i \in 1..Len(segs) : segs[i] \in {"Z", "A", "B", "T", "L", "X"}

\* C21 - extraction path and length: after a run of extract that succeeds
\* on an archive of complete entries, for every entry there is the file
\* whose path is prefix, '/' and name when the prefix field is set and the
\* name alone when it is not, holding the first size bytes of the entry's
\* content blocks, and no other file: every header was read where the
\* content blocks of the entry before it end.
C21_PathAndLength ==
    (last.op = "extract" /\ last.ret = 0 /\ CompleteEntries) =>
        out = {[name |-> PathOfKind(EntriesHere[i]), data |-> DataOfKind(EntriesHere[i])] :
                   i \in 1..Len(EntriesHere)}

(***************************************************************************)
(* Properties of the streams of a call, under SpecIO.                      *)
(***************************************************************************)
\* C22 - member and output files are scoped: when a call of create, append
\* or extract has returned, on the success path or on any error path, no
\* member file it opened for reading and no output file it opened for
\* writing is open.
C22_MemberFilesClosed ==
    io.pc = "done" => (io.open \cap {"member", "out"}) = {}

\* a call has returned failure after it had opened a member or an output file
C22_FailedWithMemberOpened ==
    /\ io.pc = "done" /\ io.ret = -1
    /\ (io.opened \cap {"member", "out"}) # {}

\* C23 - the archive handle is scoped: when a call of one of the four
\* functions has returned, on whatever path, the archive stream it opened
\* is not open.
C23_ArchiveClosed ==
    io.pc = "done" => "archive" \notin io.open

(***************************************************************************)
(* Properties of the scan loops, under SpecStep.                           *)
(***************************************************************************)
\* C24 - scanner termination: every round of the scan loop of list and of
\* extract either ends the scan, DONE or FAILED, or leaves the read position
\* further on in the archive than it found it: the position never moves
\* back over a block it has read, and the scan ends after finitely many
\* rounds, whatever the size fields hold.
C24_ScanProgress ==
    [][\A op \in {"list", "extract"} :
          (scan[op].state = "SCANNING" /\ scan'[op] # scan[op]) =>
              \/ scan'[op].state \in {"DONE", "FAILED"}
              \/ scan'[op].pos > scan[op].pos]_vars

\* C25 - list and extract scan alike: when the scan of extract has ended
\* DONE and the scan of list has ended, the scan of list has ended DONE too
\* and has taken the blocks at the same offsets, in the same order, for
\* headers of entries.
C25_ScanAlike ==
    (scan["extract"].state = "DONE" /\ scan["list"].state \in {"DONE", "FAILED"}) =>
        /\ scan["list"].state = "DONE"
        /\ scan["list"].visited = scan["extract"].visited

(***************************************************************************)
(* Properties of the numeric fields of the header, under SpecHdr.          *)
(***************************************************************************)
\* whether the n bytes at off are n - 1 octal digits and a NUL
IsOctalField(header, off, n) ==
    /\ \A i \in 1..(n - 1) : IsOctDigit(Field(header, off, n)[i])
    /\ Field(header, off, n)[n] = 0

\* C26 - numeric header fields are exact: in a header fill_tar_header has
\* made, the mode, uid and gid fields are seven octal digits and a NUL, and
\* the digits are the value of the permission bits of the file, of the id of
\* its owner and of the id of its group, whatever the ids are.
C26_NumericFieldsExact ==
    HeaderMade =>
        /\ IsOctalField(hout.header, OFF_mode, SZ_mode)
        /\ IsOctalField(hout.header, OFF_uid, SZ_uid)
        /\ IsOctalField(hout.header, OFF_gid, SZ_gid)
        /\ FieldDigits(hout.header, OFF_mode, SZ_mode - 1) = StripZeros(LowBits(hin.st.mode, 12))
        /\ FieldDigits(hout.header, OFF_uid, SZ_uid - 1) = StripZeros(hin.st.uid)
        /\ FieldDigits(hout.header, OFF_gid, SZ_gid - 1) = StripZeros(hin.st.gid)
=============================================================================
